---- MODULE Spec2Model ----
(***************************************************************************)
(* muse-db: the recommendation selection engine.                           *)
(*                                                                         *)
(* The model covers the picker service (pickMovie and its helpers          *)
(* calculateWeight and weightedRandomSelect), the store queries of         *)
(* db/queries.ts that it uses, the POST /pick route and the POST           *)
(* /candidates (batch browse) route.  The user_picks table is the          *)
(* sequence `picks`, in created_at order.  Every `await` of a handler is a *)
(* suspension point: one action runs a handler from the completion of one  *)
(* store access to the start of the next.                                  *)
(*                                                                         *)
(* Numbers.  vote_average is DECIMAL(3,1); the model holds it in tenths    *)
(* (va10).  Math.log10 is held in fixed point, in quarter decades          *)
(* (Log10Q); a weight is therefore in units of 1/400 of the source's       *)
(* weight.  Log10Q is monotone, 0 exactly at 1 and positive from 2 on, as  *)
(* Math.log10 is.  Math.random() is one of the RandomSteps values          *)
(* 0/R .. (R-1)/R.                                                         *)
(***************************************************************************)
EXTENDS Integers, Sequences, FiniteSets, TLC

\* ------------------------------------------------------------------ bounds

\* The processes that serve requests (concurrently running handlers).
NProcs == 2
\* The user_picks table holds at most MaxPicks rows in the model.
MaxPicks == 3
\* Math.random() takes the values k / RandomSteps, k in 0 .. RandomSteps-1.
RandomSteps == 3
\* config.selection.recentPicksLimit is 20 in the source; the model runs the
\* same code with a window of this size.
recentPicksLimit == 2
\* Stand-alone runs of the picker's functions: the longest list given to the
\* bias stage, the longest list given to the sampler, and the largest weight
\* in a list given to the sampler.
MaxCands == 11
MaxSample == 3
MaxWeight == 2

\* ------------------------------------------------------- program constants

minVoteCount == 500
minVoteAverage10 == 55
minRuntime == 60
\* firstPickTopPercentile is 0.3: the fraction TopNum / TopDen.
TopNum == 3
TopDen == 10
\* `weightedCandidates.length > 10`
BiasThreshold == 10
\* `limit = 30`
DefaultLimit == 30
\* `LIMIT 1000`
CandidateCap == 1000
\* `sessionId.length > 255`
MaxSessionLen == 255
\* `filters.minDuration < 60`
MinDurationFloor == 60

\* A value that is not there: NULL in a row, undefined in a request (a number
\* that no field of the model holds).
Absent == -999
NoEra == "none"

Procs == 1 .. NProcs

\* ------------------------------------------------------------- the catalog

\* movies joined with movie_genres.  Rows 1..12 pass the quality floors,
\* rows 13..17 each fail one of them.
Row(i, y, rt, va, vc, lang, ad, gs) ==
  [id |-> i, year |-> y, runtime |-> rt, va10 |-> va, vote_count |-> vc,
   original_language |-> lang, adult |-> ad, genres |-> gs]

Catalog ==
  << Row(1, 2015, 100, 70, 1000, "en", FALSE, {35}),
     Row(2, 2016, 95, 80, 2000, "en", FALSE, {35, 18}),
     Row(3, 2021, 110, 75, 5000, "en", FALSE, {35}),
     Row(4, 1985, 120, 85, 9000, "en", FALSE, {18}),
     Row(5, 1994, 142, 90, 20000, "en", FALSE, {18, 80}),
     Row(6, 2001, 125, 85, 9000, "fr", FALSE, {18}),
     Row(7, 2008, 152, 85, 9000, "en", FALSE, {28, 80}),
     Row(8, 2012, 90, 60, 600, "fr", FALSE, {28}),
     Row(9, 2019, 132, 85, 9000, "ko", FALSE, {18, 53}),
     Row(10, 2022, 139, 78, 3000, "en", FALSE, {28}),
     Row(11, 1999, 136, 87, 9000, "en", FALSE, {28, 878}),
     Row(12, 2005, 115, 72, 1500, "en", FALSE, {18}),
     Row(13, 2015, 100, 70, 1000, "en", TRUE, {35}),
     Row(14, 2016, Absent, 70, 1000, "en", FALSE, {35}),
     Row(15, 2017, 100, 70, 499, "en", FALSE, {35}),
     Row(16, 2018, 100, 54, 1000, "en", FALSE, {35}),
     Row(17, 2014, 59, 70, 1000, "en", FALSE, {35}) >>

MovieIds == 1 .. Len(Catalog)
Movie(i) == Catalog[i]

GenreName(g) ==
  CASE g = 35 -> "Comedy"
    [] g = 18 -> "Drama"
    [] g = 28 -> "Action"
    [] g = 80 -> "Crime"
    [] g = 53 -> "Thriller"
    [] g = 878 -> "Science Fiction"
    [] OTHER -> "?"

\* --------------------------------------------------------- sequence helpers

Range(s) == { s[i] : i \in 1 .. Len(s) }

Min(a, b) == IF a <= b THEN a ELSE b
Max(a, b) == IF a >= b THEN a ELSE b

RECURSIVE SeqSum(_)
SeqSum(s) == IF s = << >> THEN 0 ELSE Head(s) + SeqSum(Tail(s))

Reverse(s) == [ i \in 1 .. Len(s) |-> s[Len(s) + 1 - i] ]

\* Array.prototype.slice(0, end) for an integer end.
Slice0(s, end) ==
  LET e == IF end < 0 THEN Max(Len(s) + end, 0) ELSE Min(end, Len(s))
  IN  SubSeq(s, 1, e)

\* The sequences that hold each element of the set S once.
Arrangements(S) ==
  { f \in [ 1 .. Cardinality(S) -> S ] : \A i, j \in 1 .. Cardinality(S) : f[i] = f[j] => i = j }

\* The reorderings of s.
Reorderings(s) ==
  { [ i \in 1 .. Len(s) |-> s[p[i]] ] : p \in Arrangements(1 .. Len(s)) }

\* The elements of a set of integers in ascending order.
RECURSIVE Ascending(_)
Ascending(S) ==
  IF S = {} THEN << >>
  ELSE LET m == CHOOSE x \in S : \A y \in S : x <= y
       IN  << m >> \o Ascending(S \ {m})

\* ------------------------------------------------ services/picker: weights

\* Math.log10(n) for n >= 1, in quarter decades, rounded down: the number of
\* k with 10^(k/4) <= n.  Above 100 the last digit of n is dropped first, to
\* keep n^4 in the range of the integers.
RECURSIVE Log10Q(_)
Log10Q(n) ==
  IF n >= 100 THEN 4 + Log10Q(n \div 10)
  ELSE Cardinality({ k \in 1 .. 8 : 10 ^ k <= n ^ 4 })

\* calculateWeight with Math.log10(vote_count) for Math.log10(vote_count + 1).
calculateWeightOfCount(movie) == movie.va10 * Log10Q(movie.vote_count)

\* calculateWeight: (vote_average / 10) * Math.log10(vote_count + 1).
calculateWeight(movie) ==
  LET ratingScore == movie.va10
      popularityScore == Log10Q(movie.vote_count + 1)
  IN  ratingScore * popularityScore

\* A WeightedCandidate.  The genres of the source's candidate are those of
\* the row `id` (GenresOf below).
Candidate(i, w) == [id |-> i, weight |-> w]

\* The null of weightedRandomSelect.
NoCandidate == Candidate(0, 0)

\* The loop of weightedRandomSelect from the i-th candidate on, `random`
\* being the value of the variable before the i-th subtraction, times
\* RandomSteps.  The result is the index of the candidate returned.
RECURSIVE SelectWalk(_, _, _)
SelectWalk(cands, i, random) ==
  IF i > Len(cands) THEN Len(cands)
  ELSE LET r == random - RandomSteps * cands[i].weight
       IN  IF r <= 0 THEN i ELSE SelectWalk(cands, i + 1, r)

\* weightedRandomSelect with Math.random() = k / RandomSteps: the index of the
\* candidate returned, 0 for null.
SelectIndex(cands, k) ==
  IF Len(cands) = 0 THEN 0
  ELSE LET totalWeight == SeqSum([ i \in 1 .. Len(cands) |-> cands[i].weight ])
       IN  SelectWalk(cands, 1, k * totalWeight)

\* weightedRandomSelect giving up on a total weight of 0.
weightedRandomSelectNoTotal(cands, k) ==
  IF SeqSum([ i \in 1 .. Len(cands) |-> cands[i].weight ]) = 0 THEN NoCandidate
  ELSE cands[SelectIndex(cands, k)]

weightedRandomSelect(cands, k) ==
  LET i == SelectIndex(cands, k)
  IN  IF i = 0 THEN NoCandidate ELSE cands[i]

\* --------------------------------------- services/picker: first-pick bias

\* weightedCandidates.sort((a, b) => b.weight - a.weight): the sort is
\* stable, so the entry at place i comes to stand behind the heavier entries
\* and behind the entries of its weight that stood before it.
SortByWeightDesc(s) ==
  LET ahead(i) == { j \in 1 .. Len(s) :
                      \/ s[j].weight > s[i].weight
                      \/ s[j].weight = s[i].weight /\ j < i }
  IN  [ r \in 1 .. Len(s) |-> s[CHOOSE i \in 1 .. Len(s) : Cardinality(ahead(i)) = r - 1] ]

\* Math.floor for Math.ceil.
TopCountFloor(n) == (n * TopNum) \div TopDen

\* Math.ceil(n * firstPickTopPercentile).  In doubles n * 0.3 rounds up to
\* this integer for every n up to the LIMIT of the candidate query.
TopCount(n) == (n * TopNum + TopDen - 1) \div TopDen

\* The bias stage without the test of isFirstPick.
FirstPickBiasAlways(weightedCands, isFirstPick) ==
  IF Len(weightedCands) > BiasThreshold
  THEN SubSeq(SortByWeightDesc(weightedCands), 1, TopCount(Len(weightedCands)))
  ELSE weightedCands

\* Step 5 of pickMovie.
FirstPickBias(weightedCands, isFirstPick) ==
  IF isFirstPick /\ Len(weightedCands) > BiasThreshold
  THEN SubSeq(SortByWeightDesc(weightedCands), 1, TopCount(Len(weightedCands)))
  ELSE weightedCands

\* Step 4 of pickMovie, for candidate rows given by their ids.
WeighAll(rows) == [ i \in 1 .. Len(rows) |-> Candidate(rows[i], calculateWeight(Movie(rows[i]))) ]

\* Convert a database row to the API's movie (toMovie), without its texts.
toMovie(row, genres) ==
  [id |-> row.id, year |-> row.year,
   runtime |-> IF row.runtime = Absent \/ row.runtime = 0 THEN 0 ELSE row.runtime,
   voteAverage |-> row.va10, genres |-> genres]

\* The null movie of a PickResponse.
NoMovie == [id |-> 0, year |-> 0, runtime |-> 0, voteAverage |-> 0, genres |-> {}]

\* ---------------------------------------------------------------- requests

\* A PickFilters object.  gk tells what the genreIds field holds: "undefined",
\* "array" (genreIds is its content) or "other" (a value that is no array).
\* era is NoEra, and minDuration, maxDuration are Absent, when undefined.
Filters(gk, genreIds, era, origin, minDuration, maxDuration) ==
  [gk |-> gk, genreIds |-> genreIds, era |-> era, origin |-> origin,
   minDuration |-> minDuration, maxDuration |-> maxDuration]

\* {}
EmptyFilters == Filters("undefined", << >>, NoEra, << >>, Absent, Absent)

\* JavaScript's truthiness of an optional number.
Truthy(n) == n # Absent /\ n # 0

\* String.prototype.toLowerCase on the language codes of the model.
toLowerCase(str) ==
  CASE str = "EN" -> "en"
    [] str = "FR" -> "fr"
    [] str = "KO" -> "ko"
    [] OTHER -> str

\* JSON.stringify(filters), as the object the JSONB column then holds: the
\* keys whose value is defined, with their values.
JSONstringify(f) ==
  LET keys == (IF f.gk # "undefined" THEN {"genreIds"} ELSE {})
              \cup (IF f.era # NoEra THEN {"era"} ELSE {})
              \cup (IF f.origin # << >> THEN {"origin"} ELSE {})
              \cup (IF f.minDuration # Absent THEN {"minDuration"} ELSE {})
              \cup (IF f.maxDuration # Absent THEN {"maxDuration"} ELSE {})
  IN  [ k \in keys |-> f[k] ]

\* The length of a session id of the model.
SessionLen(sid) ==
  CASE sid = "" -> 0
    [] sid = "long" -> MaxSessionLen + 1
    [] OTHER -> 36

\* ---------------------------------------------------------- db/queries.ts

Eras == {"1980-1989", "1990-1999", "2000-2009", "2010-2019", "2020-now"}

\* eraToYearRange with no era closed at its end.
eraToYearRangeOpen(era) ==
  CASE era = "1980-1989" -> [start |-> 1980, end |-> Absent]
    [] era = "1990-1999" -> [start |-> 1990, end |-> Absent]
    [] era = "2000-2009" -> [start |-> 2000, end |-> Absent]
    [] era = "2010-2019" -> [start |-> 2010, end |-> Absent]
    [] era = "2020-now" -> [start |-> 2020, end |-> Absent]

\* eraToYearRange; end is Absent for null.
eraToYearRange(era) ==
  CASE era = "1980-1989" -> [start |-> 1980, end |-> 1989]
    [] era = "1990-1999" -> [start |-> 1990, end |-> 1999]
    [] era = "2000-2009" -> [start |-> 2000, end |-> 2009]
    [] era = "2010-2019" -> [start |-> 2010, end |-> 2019]
    [] era = "2020-now" -> [start |-> 2020, end |-> Absent]

\* The WHERE clause with a runtime floor that a minDuration filter replaces.
CandidateWhereFloorFromFilter(m, filters, excludeMovieIds) ==
  /\ m.adult = FALSE
  /\ m.runtime # Absent
  /\ m.runtime >= (IF Truthy(filters.minDuration) THEN filters.minDuration ELSE minRuntime)
  /\ m.vote_count >= minVoteCount
  /\ m.va10 >= minVoteAverage10
  /\ filters.era # NoEra =>
       LET range == eraToYearRange(filters.era)
       IN  IF range.end # Absent
           THEN m.year >= range.start /\ m.year <= range.end
           ELSE m.year >= range.start
  /\ Truthy(filters.maxDuration) => m.runtime <= filters.maxDuration
  /\ Len(filters.origin) > 0 =>
       m.original_language \in { toLowerCase(o) : o \in Range(filters.origin) }
  /\ Len(excludeMovieIds) > 0 => m.id \notin Range(excludeMovieIds)
  /\ (filters.gk = "array" /\ Len(filters.genreIds) > 0) =>
       m.genres \cap Range(filters.genreIds) # {}

\* The WHERE clause of getCandidateMovies on one row.
CandidateWhere(m, filters, excludeMovieIds) ==
  /\ m.adult = FALSE
  /\ m.runtime # Absent
  /\ m.runtime >= minRuntime
  /\ m.vote_count >= minVoteCount
  /\ m.va10 >= minVoteAverage10
  /\ filters.era # NoEra =>
       LET range == eraToYearRange(filters.era)
       IN  IF range.end # Absent
           THEN m.year >= range.start /\ m.year <= range.end
           ELSE m.year >= range.start
  /\ Truthy(filters.minDuration) => m.runtime >= filters.minDuration
  /\ Truthy(filters.maxDuration) => m.runtime <= filters.maxDuration
  /\ Len(filters.origin) > 0 =>
       m.original_language \in { toLowerCase(o) : o \in Range(filters.origin) }
  /\ Len(excludeMovieIds) > 0 => m.id \notin Range(excludeMovieIds)
  /\ (filters.gk = "array" /\ Len(filters.genreIds) > 0) =>
       m.genres \cap Range(filters.genreIds) # {}

\* The orders in which the store hands out a set of rows: the query has no
\* ORDER BY; the model takes the rows by ascending or by descending id.
RowOrders(S) == { Ascending(S), Reverse(Ascending(S)) }

\* getCandidateMovies: the possible results, each a list of rows given by
\* their ids (SELECT DISTINCT m.* ... LIMIT 1000).
getCandidateMovies(filters, excludeMovieIds) ==
  LET matching == { i \in MovieIds : CandidateWhere(Movie(i), filters, excludeMovieIds) }
      limited == IF Cardinality(matching) <= CandidateCap THEN { matching }
                 ELSE { S \in SUBSET matching : Cardinality(S) = CandidateCap }
  IN  UNION { RowOrders(S) : S \in limited }

\* getMoviesGenres(...).get(id) || []: the genre names of a movie.
GenresOf(id) == { GenreName(g) : g \in Movie(id).genres }

\* The rows of a session in user_picks, oldest first.
RECURSIVE SessionPicks(_, _)
SessionPicks(log, sessionId) ==
  IF log = << >> THEN << >>
  ELSE IF Head(log).session_id = sessionId
       THEN << Head(log) >> \o SessionPicks(Tail(log), sessionId)
       ELSE SessionPicks(Tail(log), sessionId)

\* getRecentPickMovieIds without its WHERE clause.
getRecentPickMovieIdsOfAll(log, sessionId) ==
  LET rows == SubSeq(Reverse(log), 1, Min(recentPicksLimit, Len(log)))
  IN  [ i \in 1 .. Len(rows) |-> rows[i].movie_id ]

\* getRecentPickMovieIds with LIMIT 1.
getRecentPickMovieIdsLatestOnly(log, sessionId) ==
  LET mine == Reverse(SessionPicks(log, sessionId))
      rows == SubSeq(mine, 1, Min(1, Len(mine)))
  IN  [ i \in 1 .. Len(rows) |-> rows[i].movie_id ]

\* getRecentPickMovieIds without its LIMIT.
getRecentPickMovieIdsNoLimit(log, sessionId) ==
  LET mine == Reverse(SessionPicks(log, sessionId))
  IN  [ i \in 1 .. Len(mine) |-> mine[i].movie_id ]

\* getRecentPickMovieIds with ORDER BY created_at ASC.
getRecentPickMovieIdsAsc(log, sessionId) ==
  LET mine == SessionPicks(log, sessionId)
      rows == SubSeq(mine, 1, Min(recentPicksLimit, Len(mine)))
  IN  [ i \in 1 .. Len(rows) |-> rows[i].movie_id ]

\* getRecentPickMovieIds: ORDER BY created_at DESC LIMIT recentPicksLimit.
getRecentPickMovieIds(log, sessionId) ==
  LET mine == Reverse(SessionPicks(log, sessionId))
      rows == SubSeq(mine, 1, Min(recentPicksLimit, Len(mine)))
  IN  [ i \in 1 .. Len(rows) |-> rows[i].movie_id ]

\* isFirstPickForSession without its WHERE clause.
isFirstPickForAnySession(log, sessionId) == Len(log) = 0

\* isFirstPickForSession: COUNT(*) = 0.
isFirstPickForSession(log, sessionId) == Len(SessionPicks(log, sessionId)) = 0

\* recordPick that leaves the filters out.
recordPickNoFilters(log, sessionId, movieId, filters) ==
  Append(log, [session_id |-> sessionId, movie_id |-> movieId,
               filters |-> JSONstringify(EmptyFilters)])

\* recordPick that inserts its row twice.
recordPickTwice(log, sessionId, movieId, filters) ==
  LET row == [session_id |-> sessionId, movie_id |-> movieId,
              filters |-> JSONstringify(filters)]
  IN  Append(Append(log, row), row)

\* recordPick that keeps one row per session.
RECURSIVE OtherSessions(_, _)
OtherSessions(log, sessionId) ==
  IF log = << >> THEN << >>
  ELSE IF Head(log).session_id = sessionId THEN OtherSessions(Tail(log), sessionId)
       ELSE << Head(log) >> \o OtherSessions(Tail(log), sessionId)

recordPickUpsert(log, sessionId, movieId, filters) ==
  Append(OtherSessions(log, sessionId),
         [session_id |-> sessionId, movie_id |-> movieId,
          filters |-> JSONstringify(filters)])

\* recordPick: the table after the INSERT.
recordPick(log, sessionId, movieId, filters) ==
  Append(log, [session_id |-> sessionId, movie_id |-> movieId,
               filters |-> JSONstringify(filters)])

\* [...new Set(s)]: s without the repetitions of its elements.
RECURSIVE Dedupe(_)
Dedupe(s) ==
  IF s = << >> THEN << >>
  ELSE LET front == Dedupe(SubSeq(s, 1, Len(s) - 1))
           last == s[Len(s)]
       IN  IF last \in Range(front) THEN front ELSE Append(front, last)

\* The exclusion list of the browse route made of the ids of the request alone.
excludeIdsOfRequestOnly(recentIds, clientExcludeIds) == Dedupe(clientExcludeIds)

\* excludeIds of the browse route: [...new Set([...recentIds, ...clientExcludeIds])].
excludeIds(recentIds, clientExcludeIds) == Dedupe(recentIds \o clientExcludeIds)

\* ------------------------------------------------------------------- state

VARIABLES
  picks,               \* the user_picks table, in created_at order
  pc,                  \* per process: the await its handler is suspended at
  req,                 \* per process: the body of the request it serves
  recentPickIds,       \* per process: recentPickIds (pick), recentIds (browse)
  candidates,          \* per process: the rows fetched, as ids
  weightedCandidates,  \* per process: weightedCandidates of pickMovie
  isFirstPick,         \* per process: isFirstPick of pickMovie
  selected,            \* per process: selected, as a list of ids
  response,            \* per process: the reply of the route
  startLen,            \* per process: the size of user_picks when the call began
  thrownAt,            \* per process: the await at which its call threw, "" if none
  fn                   \* a stand-alone application of one of the picker's functions

vars == << picks, pc, req, recentPickIds, candidates, weightedCandidates,
           isFirstPick, selected, response, startLen, thrownAt, fn >>

locals == << recentPickIds, candidates, weightedCandidates, isFirstPick, selected >>

\* The replies of the routes.
Reply(status, kind, movie, movies, message) ==
  [status |-> status, kind |-> kind, movie |-> movie, movies |-> movies,
   message |-> message]

NoReply == Reply(0, "none", NoMovie, << >>, "")
MovieReply(movie) == Reply(200, "movie", movie, << >>, "")
\* The reply for no match without its message.
NoMatchReplyNoMessage == Reply(200, "nomatch", NoMovie, << >>, "")
NoMatchReply ==
  Reply(200, "nomatch", NoMovie, << >>, "No movies match your criteria. Try broader filters.")
MoviesReply(movies) == Reply(200, "movies", NoMovie, movies, "")
ClientError(message) == Reply(400, "error", NoMovie, << >>, message)
ServerError(message) == Reply(500, "error", NoMovie, << >>, message)

\* The body of a request.  hasFilters: the body has a filters object;
\* sessionId "" stands for no session id; limit Absent for no limit;
\* excludeMovieIds is << >> when the body has no such array.
Request(kind, sessionId, hasFilters, filters, limit, excludeMovieIds) ==
  [kind |-> kind, sessionId |-> sessionId, hasFilters |-> hasFilters,
   filters |-> filters, limit |-> limit, excludeMovieIds |-> excludeMovieIds]

NoRequest == Request("none", "", FALSE, EmptyFilters, Absent, << >>)

\* The requests of the model.
Sessions == {"s1", "s2"}

ComedyOfThe2010s == Filters("array", << 35 >>, "2010-2019", << >>, Absent, Absent)
Comedy == Filters("array", << 35 >>, NoEra, << >>, Absent, Absent)
NoRuntimeFits == Filters("undefined", << >>, NoEra, << >>, 120, 90)
TooShort == Filters("undefined", << >>, NoEra, << >>, 30, Absent)
\* { genreIds: [], origin: ['FR'] }
FrenchOfAnyGenre == Filters("array", << >>, NoEra, << "FR" >>, Absent, Absent)
\* { origin: ['en'], minDuration: 90, maxDuration: 100 }
EnglishOfNinetyToHundred == Filters("undefined", << >>, NoEra, << "en" >>, 90, 100)
\* { genreIds: [35], minDuration: 30 }
ComedyFromThirty == Filters("array", << 35 >>, NoEra, << >>, 30, Absent)

\* The bodies of POST /pick: each session with each of three filters, one
\* session with two filters more, and one body for each way of failing the
\* validation.
PickRequests ==
  { Request("pick", sid, TRUE, f, Absent, << >>) :
      sid \in Sessions, f \in {EmptyFilters, ComedyOfThe2010s, NoRuntimeFits} }
  \cup { Request("pick", "s1", TRUE, f, Absent, << >>) :
           f \in {FrenchOfAnyGenre, EnglishOfNinetyToHundred} }
  \cup { Request("pick", "", TRUE, EmptyFilters, Absent, << >>),
         Request("pick", "long", TRUE, EmptyFilters, Absent, << >>),
         Request("pick", "s1", TRUE, TooShort, Absent, << >>),
         Request("pick", "s1", FALSE, EmptyFilters, Absent, << >>) }

\* The bodies of POST /candidates.
BrowseRequests ==
  { Request("browse", "", TRUE, Comedy, limit, << >>) : limit \in {Absent, -1, 0, 2} }
  \cup { Request("browse", "s2", TRUE, Comedy, 5, << 3, 3 >>),
         Request("browse", "", TRUE, ComedyFromThirty, 2, << >>),
         Request("browse", "s1", FALSE, EmptyFilters, 1, << 1, 2, 3, 4, 5, 6, 7, 8, 9 >>) }

\* The bodies of POST /pick of the runs with two handlers at a time.
RaceRequests ==
  { Request("pick", "s1", TRUE, f, Absent, << >>) : f \in {ComedyOfThe2010s, NoRuntimeFits} }

\* An application of one of the functions: its arguments and, once done, its
\* result.  movie is the argument of calculateWeight; cands and k (the draw
\* of Math.random(), in steps) those of weightedRandomSelect; cands and
\* isFirstPick those of the bias stage.
FnCall(op, movie, cands, k, first) ==
  [op |-> op, done |-> FALSE, movie |-> movie, cands |-> cands, k |-> k,
   isFirstPick |-> first, weight |-> 0, chosen |-> NoCandidate, kept |-> << >>]

NoFn == FnCall("none", Row(0, 0, 0, 0, 0, "", FALSE, {}), << >>, 0, FALSE)

ProgramInit ==
  /\ picks = << >>
  /\ pc = [ p \in Procs |-> "idle" ]
  /\ req = [ p \in Procs |-> NoRequest ]
  /\ recentPickIds = [ p \in Procs |-> << >> ]
  /\ candidates = [ p \in Procs |-> << >> ]
  /\ weightedCandidates = [ p \in Procs |-> << >> ]
  /\ isFirstPick = [ p \in Procs |-> FALSE ]
  /\ selected = [ p \in Procs |-> << >> ]
  /\ response = [ p \in Procs |-> NoReply ]
  /\ startLen = [ p \in Procs |-> 0 ]
  /\ thrownAt = [ p \in Procs |-> "" ]

Init == ProgramInit /\ fn = NoFn

\* The handler of p ends with the reply r; its locals are gone.  `at` is the
\* place where the handler threw, "" when it returned.
Ends(p, r, at) ==
  /\ pc' = [pc EXCEPT ![p] = "done"]
  /\ response' = [response EXCEPT ![p] = r]
  /\ thrownAt' = [thrownAt EXCEPT ![p] = at]
  /\ recentPickIds' = [recentPickIds EXCEPT ![p] = << >>]
  /\ candidates' = [candidates EXCEPT ![p] = << >>]
  /\ weightedCandidates' = [weightedCandidates EXCEPT ![p] = << >>]
  /\ isFirstPick' = [isFirstPick EXCEPT ![p] = FALSE]
  /\ selected' = [selected EXCEPT ![p] = << >>]

\* The handler of p returns the reply r.
Finish(p, r) == Ends(p, r, "")

\* The handler of p throws where it is; r is the reply to the error.
Throw(p, r) == Ends(p, r, pc[p])

\* The handler of p goes on to its next await.
Goto(p, label) ==
  /\ pc' = [pc EXCEPT ![p] = label]
  /\ UNCHANGED << response, thrownAt >>

AwaitsOfPick == {"getRecent", "getCandidates", "getGenres", "isFirstPick", "recordPick"}
AwaitsOfBrowse == {"getRecent", "getCandidates", "getGenres"}

\* ------------------------------------------------------ routes/pick.ts

\* The reply of the route's validation to the body r, NoReply when r passes.
\* A body without filters throws at `filters.minDuration`, outside the try:
\* the framework answers 500.
Validation(r) ==
  IF r.sessionId = "" \/ SessionLen(r.sessionId) < 1
     \/ SessionLen(r.sessionId) > MaxSessionLen
  THEN ClientError("Invalid session ID format.")
  ELSE IF ~r.hasFilters
  THEN ServerError("Internal Server Error")
  ELSE IF r.filters.minDuration # Absent /\ r.filters.minDuration < MinDurationFloor
  THEN ClientError("minDuration must be at least 60 minutes.")
  ELSE IF r.filters.maxDuration # Absent /\ r.filters.maxDuration < MinDurationFloor
  THEN ClientError("maxDuration must be at least 60 minutes.")
  ELSE IF r.filters.gk = "other"
  THEN ClientError("genreIds must be an array.")
  ELSE NoReply

\* POST /pick arrives: the validation of the route, then pickMovie up to its
\* first await.
PickArrives(p, r) ==
  /\ pc[p] = "idle"
  /\ r \in PickRequests
  /\ req' = [req EXCEPT ![p] = r]
  /\ startLen' = [startLen EXCEPT ![p] = Len(picks)]
  /\ IF Validation(r) = NoReply
     THEN Goto(p, "getRecent") /\ UNCHANGED locals
     ELSE IF Validation(r).status = 500
     THEN Throw(p, Validation(r))
     ELSE Finish(p, Validation(r))
  /\ UNCHANGED << picks, fn >>

\* A failed store access after which the route replies as if nothing matched.
PickFailsAsNoMatch(p) ==
  /\ req[p].kind = "pick" /\ pc[p] \in AwaitsOfPick
  /\ Throw(p, NoMatchReply)
  /\ UNCHANGED << picks, req, startLen, fn >>

\* A failed write after which the route replies with the movie chosen.
PickFailsReturningMovie(p) ==
  /\ req[p].kind = "pick" /\ pc[p] \in AwaitsOfPick
  /\ IF pc[p] = "recordPick"
     THEN Throw(p, MovieReply(toMovie(Movie(selected[p][1]), GenresOf(selected[p][1]))))
     ELSE Throw(p, ServerError("Failed to pick a movie. Please try again."))
  /\ UNCHANGED << picks, req, startLen, fn >>

\* A store access of p fails: pickMovie throws, the route answers 500.
PickFails(p) ==
  /\ req[p].kind = "pick" /\ pc[p] \in AwaitsOfPick
  /\ Throw(p, ServerError("Failed to pick a movie. Please try again."))
  /\ UNCHANGED << picks, req, startLen, fn >>

\* Step 1 of pickMovie with its result left aside.
PickGetRecentLeftAside(p) ==
  /\ req[p].kind = "pick" /\ pc[p] = "getRecent"
  /\ Goto(p, "getCandidates")
  /\ UNCHANGED << picks, req, locals, startLen, fn >>

\* Step 1 of pickMovie.
PickGetRecent(p) ==
  /\ req[p].kind = "pick" /\ pc[p] = "getRecent"
  /\ recentPickIds' = [recentPickIds EXCEPT ![p] = getRecentPickMovieIds(picks, req[p].sessionId)]
  /\ Goto(p, "getCandidates")
  /\ UNCHANGED << picks, req, candidates, weightedCandidates, isFirstPick, selected,
                  startLen, fn >>

\* Step 2 of pickMovie and the empty check.
PickGetCandidates(p) ==
  /\ req[p].kind = "pick" /\ pc[p] = "getCandidates"
  /\ \E rows \in getCandidateMovies(req[p].filters, recentPickIds[p]) :
       IF Len(rows) = 0
       THEN Finish(p, NoMatchReply)
       ELSE /\ candidates' = [candidates EXCEPT ![p] = rows]
            /\ Goto(p, "getGenres")
            /\ UNCHANGED << recentPickIds, weightedCandidates, isFirstPick, selected >>
  /\ UNCHANGED << picks, req, startLen, fn >>

\* Steps 3 and 4 of pickMovie.
PickGetGenres(p) ==
  /\ req[p].kind = "pick" /\ pc[p] = "getGenres"
  /\ weightedCandidates' = [weightedCandidates EXCEPT ![p] = WeighAll(candidates[p])]
  /\ Goto(p, "isFirstPick")
  /\ UNCHANGED << picks, req, recentPickIds, candidates, isFirstPick, selected,
                  startLen, fn >>

\* Steps 5 and 6 of pickMovie.
PickIsFirstPick(p) ==
  /\ req[p].kind = "pick" /\ pc[p] = "isFirstPick"
  /\ LET first == isFirstPickForSession(picks, req[p].sessionId)
         biased == FirstPickBias(weightedCandidates[p], first)
     IN  \E k \in 0 .. RandomSteps - 1 :
           LET chosen == weightedRandomSelect(biased, k)
           IN  IF chosen = NoCandidate
               THEN Finish(p, NoMatchReply)
               ELSE /\ isFirstPick' = [isFirstPick EXCEPT ![p] = first]
                    /\ weightedCandidates' = [weightedCandidates EXCEPT ![p] = biased]
                    /\ selected' = [selected EXCEPT ![p] = << chosen.id >>]
                    /\ Goto(p, "recordPick")
                    /\ UNCHANGED << recentPickIds, candidates >>
  /\ UNCHANGED << picks, req, startLen, fn >>

\* Steps 7 and 8 with a table that takes a movie once per session.
PickRecordOncePerSession(p) ==
  /\ req[p].kind = "pick" /\ pc[p] = "recordPick"
  /\ Len(picks) < MaxPicks
  /\ \A i \in 1 .. Len(picks) :
       ~(picks[i].session_id = req[p].sessionId /\ picks[i].movie_id = selected[p][1])
  /\ picks' = recordPick(picks, req[p].sessionId, selected[p][1], req[p].filters)
  /\ Finish(p, MovieReply(toMovie(Movie(selected[p][1]), GenresOf(selected[p][1]))))
  /\ UNCHANGED << req, startLen, fn >>

\* Steps 7 and 8 of pickMovie, and the reply of the route.
PickRecord(p) ==
  /\ req[p].kind = "pick" /\ pc[p] = "recordPick"
  /\ Len(picks) < MaxPicks
  /\ picks' = recordPick(picks, req[p].sessionId, selected[p][1], req[p].filters)
  /\ Finish(p, MovieReply(toMovie(Movie(selected[p][1]), GenresOf(selected[p][1]))))
  /\ UNCHANGED << req, startLen, fn >>

\* The reply of p has gone out; p is free for the next request.
Return(p) ==
  /\ pc[p] = "done"
  /\ pc' = [pc EXCEPT ![p] = "idle"]
  /\ req' = [req EXCEPT ![p] = NoRequest]
  /\ response' = [response EXCEPT ![p] = NoReply]
  /\ startLen' = [startLen EXCEPT ![p] = 0]
  /\ thrownAt' = [thrownAt EXCEPT ![p] = ""]
  /\ UNCHANGED << picks, locals, fn >>

\* --------------------------------------------- routes/candidates (browse)

\* POST /candidates arrives: no validation; with no session id the handler
\* goes on to the candidate query with recentIds = [].
BrowseArrives(p, r) ==
  /\ pc[p] = "idle"
  /\ r \in BrowseRequests
  /\ req' = [req EXCEPT ![p] = r]
  /\ startLen' = [startLen EXCEPT ![p] = Len(picks)]
  /\ Goto(p, IF r.sessionId # "" THEN "getRecent" ELSE "getCandidates")
  /\ UNCHANGED << picks, locals, fn >>

\* A store access of p fails: the catch of the route answers 500.
BrowseFails(p) ==
  /\ req[p].kind = "browse" /\ pc[p] \in AwaitsOfBrowse
  /\ Throw(p, ServerError("Failed to fetch candidates."))
  /\ UNCHANGED << picks, req, startLen, fn >>

BrowseGetRecent(p) ==
  /\ req[p].kind = "browse" /\ pc[p] = "getRecent"
  /\ recentPickIds' = [recentPickIds EXCEPT ![p] = getRecentPickMovieIds(picks, req[p].sessionId)]
  /\ Goto(p, "getCandidates")
  /\ UNCHANGED << picks, req, candidates, weightedCandidates, isFirstPick, selected,
                  startLen, fn >>

\* Math.min(limit, length) of the route, limit defaulting to 30.
BrowseCount(r, length) ==
  Min(IF r.limit = Absent THEN DefaultLimit ELSE r.limit, length)

\* The candidate query, the shuffle and the slice.  The comparator of the
\* shuffle answers at random: the sort leaves the rows in any order.
\* `candidates` is sorted in place.  With nothing selected getMoviesGenres
\* returns without a query, and the route replies.
BrowseGetCandidates(p) ==
  /\ req[p].kind = "browse" /\ pc[p] = "getCandidates"
  /\ LET excluded == excludeIds(recentPickIds[p], req[p].excludeMovieIds)
         filters == IF req[p].hasFilters THEN req[p].filters ELSE EmptyFilters
     IN  \E rows \in getCandidateMovies(filters, excluded) :
           IF Len(rows) = 0
           THEN Finish(p, MoviesReply(<< >>))
           ELSE \E shuffled \in Reorderings(rows) :
                  LET chosen == Slice0(shuffled, BrowseCount(req[p], Len(shuffled)))
                  IN  IF Len(chosen) = 0
                      THEN Finish(p, MoviesReply(<< >>))
                      ELSE /\ candidates' = [candidates EXCEPT ![p] = shuffled]
                           /\ selected' = [selected EXCEPT ![p] = chosen]
                           /\ Goto(p, "getGenres")
                           /\ UNCHANGED << recentPickIds, weightedCandidates, isFirstPick >>
  /\ UNCHANGED << picks, req, startLen, fn >>

\* The genre query and the reply, with a row written for the first movie.
BrowseGetGenresRecording(p) ==
  /\ req[p].kind = "browse" /\ pc[p] = "getGenres"
  /\ Finish(p, MoviesReply([ i \in 1 .. Len(selected[p]) |->
                              toMovie(Movie(selected[p][i]), GenresOf(selected[p][i])) ]))
  /\ picks' = IF Len(picks) < MaxPicks
              THEN recordPick(picks, req[p].sessionId, selected[p][1], EmptyFilters)
              ELSE picks
  /\ UNCHANGED << req, startLen, fn >>

\* The genre query and the reply.
BrowseGetGenres(p) ==
  /\ req[p].kind = "browse" /\ pc[p] = "getGenres"
  /\ Finish(p, MoviesReply([ i \in 1 .. Len(selected[p]) |->
                              toMovie(Movie(selected[p][i]), GenresOf(selected[p][i])) ]))
  /\ UNCHANGED << picks, req, startLen, fn >>

\* ------------------------------- the picker's functions, run on their own

\* The lists of n candidates with ids 1..n and weights from W.
CandLists(n, W) ==
  { [ i \in 1 .. n |-> Candidate(i, w[i]) ] : w \in [ 1 .. n -> W ] }

VoteAverages == {0, 1, 55, 100}
VoteCounts == {0, 1, 2, 9, 499, 500, 20000}
BiasWeights == {1, 2}

\* A list of a hundred candidates.
Hundred == [ i \in 1 .. 100 |-> Candidate(i, (i * 7) % 5) ]

FnInputs ==
  { FnCall("calculateWeight", Row(0, 0, 0, a, c, "", FALSE, {}), << >>, 0, FALSE) :
      a \in VoteAverages, c \in VoteCounts }
  \cup { FnCall("weightedRandomSelect", NoFn.movie, l, k, FALSE) :
           l \in UNION { CandLists(n, 0 .. MaxWeight) : n \in 0 .. MaxSample },
           k \in 0 .. RandomSteps - 1 }
  \cup { FnCall("FirstPickBias", NoFn.movie, l, 0, b) :
           l \in UNION { CandLists(n, BiasWeights) : n \in 0 .. MaxCands } \cup { Hundred },
           b \in BOOLEAN }

FnInit == ProgramInit /\ fn \in FnInputs

program == << picks, pc, req, recentPickIds, candidates, weightedCandidates,
              isFirstPick, selected, response, startLen, thrownAt >>

ApplyCalculateWeight ==
  /\ fn.op = "calculateWeight" /\ ~fn.done
  /\ fn' = [fn EXCEPT !.done = TRUE, !.weight = calculateWeight(fn.movie)]
  /\ UNCHANGED program

ApplyWeightedRandomSelect ==
  /\ fn.op = "weightedRandomSelect" /\ ~fn.done
  /\ fn' = [fn EXCEPT !.done = TRUE, !.chosen = weightedRandomSelect(fn.cands, fn.k)]
  /\ UNCHANGED program

ApplyFirstPickBias ==
  /\ fn.op = "FirstPickBias" /\ ~fn.done
  /\ fn' = [fn EXCEPT !.done = TRUE, !.kept = FirstPickBias(fn.cands, fn.isFirstPick)]
  /\ UNCHANGED program

NextFn == ApplyCalculateWeight \/ ApplyWeightedRandomSelect \/ ApplyFirstPickBias

SpecFn == FnInit /\ [][NextFn]_vars

\* ----------------------------------------------------------- the program

\* One request at a time: process 1 serves every request of the model.
Next ==
  \/ \E r \in PickRequests : PickArrives(1, r)
  \/ PickFails(1)
  \/ PickGetRecent(1)
  \/ PickGetCandidates(1)
  \/ PickGetGenres(1)
  \/ PickIsFirstPick(1)
  \/ PickRecord(1)
  \/ \E r \in BrowseRequests : BrowseArrives(1, r)
  \/ BrowseFails(1)
  \/ BrowseGetRecent(1)
  \/ BrowseGetCandidates(1)
  \/ BrowseGetGenres(1)
  \/ Return(1)

Spec == Init /\ [][Next]_vars

\* Handlers that overlap: every process serves picks of one session.
NextRace ==
  \/ \E p \in Procs : \E r \in RaceRequests : PickArrives(p, r)
  \/ \E p \in Procs : PickFails(p)
  \/ \E p \in Procs : PickGetRecent(p)
  \/ \E p \in Procs : PickGetCandidates(p)
  \/ \E p \in Procs : PickGetGenres(p)
  \/ \E p \in Procs : PickIsFirstPick(p)
  \/ \E p \in Procs : PickRecord(p)
  \/ \E p \in Procs : Return(p)

SpecRace == Init /\ [][NextRace]_vars

\* ------------------------------------------------------------------ claims

\* The application of `op` has returned.
Returned(op) == fn.op = op /\ fn.done

AllZero(cands) == \A i \in 1 .. Len(cands) : cands[i].weight = 0

\* C5: the sampler returns null only for an empty list; for a non-empty list,
\* whatever the weights and the draw, it returns an entry of the list.
C5_SamplerReturnsMember ==
  Returned("weightedRandomSelect") =>
    /\ (fn.chosen = NoCandidate) <=> (Len(fn.cands) = 0)
    /\ Len(fn.cands) > 0 => \E i \in 1 .. Len(fn.cands) : fn.chosen = fn.cands[i]

\* The sampler has returned an entry of a list of several weightless candidates.
C5_Witness ==
  /\ Returned("weightedRandomSelect")
  /\ Len(fn.cands) >= 2 /\ AllZero(fn.cands)
  /\ fn.chosen \in Range(fn.cands)

\* C6: on a list of k > 0 candidates of weight 0 the sampler chooses
\* uniformly: each of the k candidates is the result for some draw (for k up
\* to the number of draws of the model).
C6_UniformOnAllZero ==
  (Returned("weightedRandomSelect") /\ Len(fn.cands) > 0 /\ AllZero(fn.cands)
     /\ Len(fn.cands) <= RandomSteps) =>
    \A i \in 1 .. Len(fn.cands) :
      \E k \in 0 .. RandomSteps - 1 : weightedRandomSelect(fn.cands, k) = fn.cands[i]

\* C7 as stated: the weight is positive whenever vote_count >= 0 and
\* vote_average > 0, and it is 0 exactly when vote_average is 0.
C7_PositiveUnlessNoRating ==
  Returned("calculateWeight") =>
    /\ (fn.movie.vote_count >= 0 /\ fn.movie.va10 > 0) => fn.weight > 0
    /\ (fn.weight = 0) <=> (fn.movie.va10 = 0)

\* C7, amended: the weight is positive whenever vote_count >= 1 and
\* vote_average > 0, and it is 0 exactly when vote_average is 0 or vote_count
\* is 0.
C7_PositiveUnlessNoRatingOrNoVotes ==
  Returned("calculateWeight") =>
    /\ (fn.movie.vote_count >= 1 /\ fn.movie.va10 > 0) => fn.weight > 0
    /\ (fn.weight = 0) <=> (fn.movie.va10 = 0 \/ fn.movie.vote_count = 0)

\* A rated movie with one vote has got a positive weight.
C7_Witness ==
  /\ Returned("calculateWeight")
  /\ fn.movie.vote_count = 1 /\ fn.movie.va10 > 0 /\ fn.weight > 0

\* The least integer that is at least 3/10 of n.
CeilOfThreeTenths(n) == CHOOSE c \in 0 .. n : 10 * c >= 3 * n /\ 10 * (c - 1) < 3 * n

\* C8: on a first pick with n > 10 candidates the bias stage keeps exactly
\* ceil(0.3 * n) of them; a kept candidate weighs at least as much as a
\* discarded one; the kept candidates are entries of the input, each kept
\* once.
C8_BiasKeepsTopThird ==
  (Returned("FirstPickBias") /\ fn.isFirstPick /\ Len(fn.cands) > 10) =>
    LET keptIds == { fn.kept[i].id : i \in 1 .. Len(fn.kept) }
    IN  /\ Len(fn.kept) = CeilOfThreeTenths(Len(fn.cands))
        /\ \A i \in 1 .. Len(fn.kept) : fn.kept[i] \in Range(fn.cands)
        /\ \A i, j \in 1 .. Len(fn.kept) : fn.kept[i].id = fn.kept[j].id => i = j
        /\ \A i \in 1 .. Len(fn.kept) : \A j \in 1 .. Len(fn.cands) :
             fn.cands[j].id \notin keptIds => fn.kept[i].weight >= fn.cands[j].weight

\* The bias stage has cut the list of a hundred candidates down to thirty.
C8_Witness ==
  /\ Returned("FirstPickBias") /\ fn.isFirstPick
  /\ Len(fn.cands) = 100 /\ Len(fn.kept) = 30

\* The movie ids of the session's recentPicksLimit latest rows among the first
\* n rows of user_picks.
LatestOf(sessionId, n) ==
  { picks[i].movie_id : i \in { j \in 1 .. Min(n, Len(picks)) :
      /\ picks[j].session_id = sessionId
      /\ Cardinality({ l \in j + 1 .. Min(n, Len(picks)) :
                         picks[l].session_id = sessionId }) < recentPicksLimit } }

\* C1: the movie a pick call has chosen (and the movie it returns) is none of
\* the movies of the session's latest recentPicksLimit pick records that
\* existed when the call started.  The calls of a session do not overlap.
C1_NoRecentRepeat ==
  \A p \in Procs : req[p].kind = "pick" =>
    /\ pc[p] = "recordPick" => selected[p][1] \notin LatestOf(req[p].sessionId, startLen[p])
    /\ (pc[p] = "done" /\ response[p].kind = "movie") =>
         response[p].movie.id \notin LatestOf(req[p].sessionId, startLen[p])

\* A call of a session with recentPicksLimit records has returned a movie.
C1_Witness ==
  \E p \in Procs :
    /\ req[p].kind = "pick" /\ pc[p] = "done" /\ response[p].kind = "movie"
    /\ Cardinality(LatestOf(req[p].sessionId, startLen[p])) = recentPicksLimit

\* The JSON object json holds the fields of the filters f that are defined,
\* and no other.
HoldsFilters(json, f) ==
  /\ DOMAIN json \subseteq {"genreIds", "era", "origin", "minDuration", "maxDuration"}
  /\ ("genreIds" \in DOMAIN json) <=> (f.gk # "undefined")
  /\ ("era" \in DOMAIN json) <=> (f.era # NoEra)
  /\ ("origin" \in DOMAIN json) <=> (f.origin # << >>)
  /\ ("minDuration" \in DOMAIN json) <=> (f.minDuration # Absent)
  /\ ("maxDuration" \in DOMAIN json) <=> (f.maxDuration # Absent)
  /\ \A k \in DOMAIN json : json[k] = f[k]

\* C2: a pick call that returns a movie has appended exactly one record, which
\* holds the session id of the call, the id of the movie returned and the
\* filters of the call; a call that has not returned a movie has appended
\* none.
C2_OneRecordPerPick ==
  \A p \in Procs : req[p].kind = "pick" =>
    IF pc[p] = "done" /\ response[p].kind = "movie"
    THEN /\ Len(picks) = startLen[p] + 1
         /\ picks[Len(picks)].session_id = req[p].sessionId
         /\ picks[Len(picks)].movie_id = response[p].movie.id
         /\ HoldsFilters(picks[Len(picks)].filters, req[p].filters)
    ELSE Len(picks) = startLen[p]

\* A call with an era and a genre filter has returned a movie.
C2_Witness ==
  \E p \in Procs :
    /\ req[p].kind = "pick" /\ pc[p] = "done" /\ response[p].kind = "movie"
    /\ req[p].filters = ComedyOfThe2010s

\* No row of the catalog passes the WHERE clause of the candidate query of p.
NoRowMatches(p) ==
  \A i \in MovieIds : ~CandidateWhere(Movie(i), req[p].filters, recentPickIds[p])

\* C3: when the candidate query of a pick call returns no row, the call ends
\* there with status 200, a null movie and a message that is not empty, and
\* user_picks is as it was before the call.
C3_NoMatchIsNoFailure ==
  [][ \A p \in Procs : (PickGetCandidates(p) /\ NoRowMatches(p)) =>
        /\ pc'[p] = "done"
        /\ response'[p].status = 200
        /\ response'[p].movie = NoMovie
        /\ response'[p].message # ""
        /\ picks' = picks /\ Len(picks) = startLen[p] ]_vars

\* A call has ended with no match because the movies that fit its filters are
\* all excluded.
C3_Witness ==
  \E p \in Procs :
    /\ req[p].kind = "pick" /\ pc[p] = "done" /\ response[p].kind = "nomatch"
    /\ req[p].filters = ComedyOfThe2010s

\* C4: user_picks is append-only: every step keeps the rows there are, as
\* they are and where they are.
C4_AppendOnly ==
  [][ Len(picks') >= Len(picks) /\ SubSeq(picks', 1, Len(picks)) = picks ]_vars

\* A browse call has ended, and a pick call has ended, with rows in user_picks.
C4_Witness ==
  /\ Len(picks) >= 2
  /\ \E p \in Procs : pc[p] = "done" /\ req[p].kind = "browse"

\* The session of p has a row in user_picks.
HasPicked(sessionId) == \E i \in 1 .. Len(picks) : picks[i].session_id = sessionId

\* C9: when the session has a pick record already, or there are 10 candidates
\* or fewer, the bias stage hands the weighted candidates on to the sampler as
\* they are.
C9_BiasLeavesOthersAlone ==
  [][ \A p \in Procs :
        ( /\ req[p].kind = "pick" /\ pc[p] = "isFirstPick" /\ pc'[p] = "recordPick"
          /\ (HasPicked(req[p].sessionId) \/ Len(weightedCandidates[p]) <= 10) ) =>
        weightedCandidates'[p] = weightedCandidates[p] ]_vars

\* A session with a pick record has got more than 10 candidates, all handed on.
C9_Witness ==
  \E p \in Procs :
    /\ req[p].kind = "pick" /\ pc[p] = "recordPick"
    /\ HasPicked(req[p].sessionId) /\ Len(weightedCandidates[p]) > 10

\* The limit a browse request asks for.
RequestedLimit(r) == IF r.limit = Absent THEN DefaultLimit ELSE r.limit

\* C10: a browse call returns at most `limit` movies and at most as many as
\* the pool holds, min(limit, pool size) in all; their ids differ, and each
\* is a movie of the pool.
C10_BrowseWithinLimit ==
  \A p \in Procs : req[p].kind = "browse" =>
    /\ pc[p] = "getGenres" =>
         /\ Len(selected[p]) <= RequestedLimit(req[p])
         /\ Len(selected[p]) <= Len(candidates[p])
         /\ Len(selected[p]) = Min(RequestedLimit(req[p]), Len(candidates[p]))
         /\ \A i, j \in 1 .. Len(selected[p]) : selected[p][i] = selected[p][j] => i = j
         /\ Range(selected[p]) \subseteq Range(candidates[p])
    /\ (pc[p] = "done" /\ response[p].kind = "movies") =>
         Len(response[p].movies) <= RequestedLimit(req[p])

\* C11: a browse call writes nothing: every step of a browse call, whether it
\* goes on, replies with movies, replies with none or fails, leaves user_picks
\* as it is, and with it the recent picks and the first-pick status of every
\* session.
C11_BrowseWritesNothing ==
  [][ \A p \in Procs : (req[p].kind = "browse" \/ req'[p].kind = "browse") =>
        /\ picks' = picks
        /\ \A sid \in Sessions :
             /\ getRecentPickMovieIds(picks', sid) = getRecentPickMovieIds(picks, sid)
             /\ isFirstPickForSession(picks', sid) = isFirstPickForSession(picks, sid) ]_vars

\* A browse call of a session that has pick records has returned movies.
C11_Witness ==
  \E p \in Procs :
    /\ req[p].kind = "browse" /\ pc[p] = "done"
    /\ response[p].kind = "movies" /\ Len(response[p].movies) > 0
    /\ req[p].sessionId # "" /\ HasPicked(req[p].sessionId)

\* The ids a browse call of p has to leave out: those of the request and,
\* with a session id, those of the session's latest pick records.
BrowseExcluded(p) ==
  Range(req[p].excludeMovieIds)
    \cup (IF req[p].sessionId # "" THEN LatestOf(req[p].sessionId, startLen[p]) ELSE {})

\* The movies that fit the filters of the browse request of p and are not
\* left out.
BrowsePool(p) ==
  { i \in MovieIds :
      CandidateWhere(Movie(i), IF req[p].hasFilters THEN req[p].filters ELSE EmptyFilters,
                     << >>) } \ BrowseExcluded(p)

\* C12: the pool of a browse call is the movies that fit the filters less the
\* ids given in the request and, when a session id is given, less the
\* session's recent picks (and less nothing else); none of the movies
\* returned is one of those ids.
C12_BrowseExcludesUnion ==
  \A p \in Procs : req[p].kind = "browse" =>
    /\ pc[p] = "getGenres" =>
         /\ Range(candidates[p]) = BrowsePool(p)
         /\ Range(selected[p]) \cap BrowseExcluded(p) = {}
    /\ (pc[p] = "done" /\ response[p].kind = "movies") =>
         \A i \in 1 .. Len(response[p].movies) :
           response[p].movies[i].id \notin BrowseExcluded(p)

\* A browse call with ids to leave out, of a session whose recent picks fit
\* the filters, has selected movies.
C12_Witness ==
  \E p \in Procs :
    /\ req[p].kind = "browse" /\ pc[p] = "getGenres"
    /\ req[p].sessionId # "" /\ Len(req[p].excludeMovieIds) > 0
    /\ \E i \in LatestOf(req[p].sessionId, startLen[p]) :
         /\ CandidateWhere(Movie(i), req[p].filters, << >>)
         /\ i \notin Range(req[p].excludeMovieIds)

\* The quality floors.
PassesFloors(m) ==
  /\ m.adult = FALSE
  /\ m.runtime # Absent /\ m.runtime >= 60
  /\ m.vote_count >= 500
  /\ m.va10 >= 55

\* C13: every row the candidate query has returned, every movie a call has
\* selected and every movie a pick or a browse call returns passes the
\* quality floors, whatever the filters and the exclusions of the request.
C13_QualityFloors ==
  \A p \in Procs :
    /\ \A i \in Range(candidates[p]) \cup Range(selected[p]) : PassesFloors(Movie(i))
    /\ (pc[p] = "done" /\ response[p].kind = "movie") =>
         PassesFloors(Movie(response[p].movie.id))
    /\ (pc[p] = "done" /\ response[p].kind = "movies") =>
         \A i \in 1 .. Len(response[p].movies) : PassesFloors(Movie(response[p].movies[i].id))

\* A browse call that asks for runtimes from 30 minutes has returned movies.
C13_Witness ==
  \E p \in Procs :
    /\ req[p].kind = "browse" /\ pc[p] = "done"
    /\ req[p].filters.minDuration = 30
    /\ response[p].kind = "movies" /\ Len(response[p].movies) > 0

\* The year lies in the era: in its decade, or from 2020 on.
InEra(year, era) ==
  CASE era = "1980-1989" -> 1980 <= year /\ year <= 1989
    [] era = "1990-1999" -> 1990 <= year /\ year <= 1999
    [] era = "2000-2009" -> 2000 <= year /\ year <= 2009
    [] era = "2010-2019" -> 2010 <= year /\ year <= 2019
    [] era = "2020-now" -> 2020 <= year

\* The era and the runtime bounds of the filters f hold of the movie m.
InEraAndRuntime(m, f) ==
  /\ f.era # NoEra => InEra(m.year, f.era)
  /\ f.minDuration # Absent => m.runtime >= f.minDuration
  /\ f.maxDuration # Absent => m.runtime <= f.maxDuration

\* Every filter that f supplies holds of m, a genre list and an origin list
\* taken as they are given.
SatisfiesAsGiven(m, f) ==
  /\ InEraAndRuntime(m, f)
  /\ f.gk = "array" => m.genres \cap Range(f.genreIds) # {}
  /\ f.origin # << >> => m.original_language \in Range(f.origin)

\* Every filter that f supplies holds of m; an empty genre list asks for
\* nothing, and the origin codes count in lower case.
SatisfiesFilters(m, f) ==
  /\ InEraAndRuntime(m, f)
  /\ (f.gk = "array" /\ f.genreIds # << >>) => m.genres \cap Range(f.genreIds) # {}
  /\ f.origin # << >> =>
       \E o \in Range(f.origin) : m.original_language = toLowerCase(o)

\* The sampler of the pick call of p, waiting for its first-pick query, can
\* choose the movie i.
CanChoose(p, i) ==
  \E k \in 0 .. RandomSteps - 1 :
    weightedRandomSelect(
      FirstPickBias(weightedCandidates[p], isFirstPickForSession(picks, req[p].sessionId)),
      k).id = i

\* The example of C14: with era 2010-2019 and genre 35, and nothing excluded,
\* the candidates are the comedies of 2015 and of 2016 (movies 1 and 2), not
\* the one of 2021 (movie 3), and each of the two can be chosen.
ComediesOfThe2010s(p) ==
  (req[p].filters = ComedyOfThe2010s /\ pc[p] = "isFirstPick" /\ recentPickIds[p] = << >>) =>
    /\ { weightedCandidates[p][i].id : i \in 1 .. Len(weightedCandidates[p]) } = {1, 2}
    /\ CanChoose(p, 1) /\ CanChoose(p, 2) /\ ~CanChoose(p, 3)

\* C14 as stated: the movie a pick call chooses, and returns, satisfies every
\* supplied filter, with "has one of the requested genre ids" and "language
\* in the origin set" for every genre list and origin list supplied.
C14_PickSatisfiesFiltersAsGiven ==
  \A p \in Procs : req[p].kind = "pick" =>
    /\ pc[p] = "recordPick" => SatisfiesAsGiven(Movie(selected[p][1]), req[p].filters)
    /\ (pc[p] = "done" /\ response[p].kind = "movie") =>
         SatisfiesAsGiven(Movie(response[p].movie.id), req[p].filters)
    /\ ComediesOfThe2010s(p)

\* C14, amended: the movie a pick call chooses, and returns, satisfies every
\* supplied filter, where an empty genre list constrains nothing and the
\* language is compared with the origin codes in lower case.
C14_PickSatisfiesFilters ==
  \A p \in Procs : req[p].kind = "pick" =>
    /\ pc[p] = "recordPick" => SatisfiesFilters(Movie(selected[p][1]), req[p].filters)
    /\ (pc[p] = "done" /\ response[p].kind = "movie") =>
         SatisfiesFilters(Movie(response[p].movie.id), req[p].filters)
    /\ ComediesOfThe2010s(p)

\* A call with an empty genre list and the origin FR has returned a French
\* movie.
C14_Witness ==
  \E p \in Procs :
    /\ req[p].kind = "pick" /\ pc[p] = "done" /\ response[p].kind = "movie"
    /\ req[p].filters = FrenchOfAnyGenre
    /\ Movie(response[p].movie.id).original_language = "fr"

\* C15: the step of a pick call at its write either fails, and then the reply
\* is an error of status 500 without a movie and user_picks is as it was, or
\* it returns a movie, and then the row of that movie for the session of the
\* call has been appended.
C15_NoMovieWithoutRecord ==
  [][ \A p \in Procs :
        (req[p].kind = "pick" /\ pc[p] = "recordPick" /\ pc'[p] = "done") =>
          IF thrownAt'[p] = "recordPick"
          THEN /\ response'[p].status = 500 /\ response'[p].kind = "error"
               /\ response'[p].movie = NoMovie
               /\ picks' = picks /\ Len(picks) = startLen[p]
          ELSE /\ response'[p].kind = "movie"
               /\ Len(picks') = Len(picks) + 1
               /\ SubSeq(picks', 1, Len(picks)) = picks
               /\ picks'[Len(picks')].movie_id = response'[p].movie.id
               /\ picks'[Len(picks')].session_id = req[p].sessionId ]_vars

\* The write of a call of a session with records has failed.
C15_Witness ==
  \E p \in Procs :
    /\ req[p].kind = "pick" /\ pc[p] = "done" /\ thrownAt[p] = "recordPick"
    /\ response[p].status = 500 /\ HasPicked(req[p].sessionId)

\* The reads of pickMovie.
ReadsOfPick == {"getRecent", "getCandidates", "getGenres", "isFirstPick"}

\* C16: a pick call one of whose reads has failed has ended (it makes no
\* further store access), its reply is an error of status 500 without a
\* movie, and it has written no row.
C16_StoreFailureEndsCall ==
  \A p \in Procs : (req[p].kind = "pick" /\ thrownAt[p] \in ReadsOfPick) =>
    /\ pc[p] = "done"
    /\ response[p].status = 500 /\ response[p].kind = "error"
    /\ response[p].movie = NoMovie
    /\ Len(picks) = startLen[p]

\* The first-pick query of a call of a session with records has failed.
C16_Witness ==
  \E p \in Procs :
    /\ req[p].kind = "pick" /\ pc[p] = "done" /\ thrownAt[p] = "isFirstPick"
    /\ response[p].status = 500 /\ HasPicked(req[p].sessionId)

\* The body r is one that the claim C17 has rejected: no session id or one
\* that is not 1..255 characters long, a minDuration or maxDuration below 60,
\* or a genreIds that is no list.
InvalidBody(r) ==
  \/ r.sessionId = ""
  \/ SessionLen(r.sessionId) < 1 \/ SessionLen(r.sessionId) > 255
  \/ r.filters.minDuration # Absent /\ r.filters.minDuration < 60
  \/ r.filters.maxDuration # Absent /\ r.filters.maxDuration < 60
  \/ r.filters.gk = "other"

\* C17: when POST /pick arrives, a body that is invalid gets a reply of
\* status 400 at once, with no store access and user_picks unchanged; every
\* other body (a valid session id, and filter fields valid or absent) makes
\* the handler call pickMovie, which goes to its first store access.
C17_ValidationGate ==
  [][ \A p \in Procs : (pc[p] = "idle" /\ req'[p].kind = "pick") =>
        IF InvalidBody(req'[p])
        THEN /\ pc'[p] = "done" /\ response'[p].status = 400
             /\ response'[p].movie = NoMovie /\ picks' = picks
        ELSE pc'[p] = "getRecent" ]_vars

\* The movie of the i-th latest row of the session among the first n rows of
\* user_picks.
NthLatest(sessionId, n, i) ==
  LET j == CHOOSE j \in 1 .. n :
             /\ picks[j].session_id = sessionId
             /\ Cardinality({ l \in j + 1 .. n : picks[l].session_id = sessionId }) = i - 1
  IN  picks[j].movie_id

\* The movies of the rows of the session among the first n rows of user_picks.
EverPicked(sessionId, n) ==
  { picks[j].movie_id : j \in { l \in 1 .. Min(n, Len(picks)) : picks[l].session_id = sessionId } }

\* C18: the exclusion list a pick call works with holds the movies of the
\* session's latest rows, the latest first, recentPicksLimit of them at most
\* and no other; the candidates of the call are the movies that fit its
\* filters less those, so a movie of an older row of the session is a
\* candidate again.
C18_ExclusionIsLatestN ==
  \A p \in Procs :
    (req[p].kind = "pick" /\ pc[p] \in {"getCandidates", "getGenres", "isFirstPick", "recordPick"}) =>
      /\ Len(recentPickIds[p]) <= recentPicksLimit
      /\ Len(recentPickIds[p]) =
           Min(recentPicksLimit, Len(SessionPicks(SubSeq(picks, 1, startLen[p]), req[p].sessionId)))
      /\ \A i \in 1 .. Len(recentPickIds[p]) :
           recentPickIds[p][i] = NthLatest(req[p].sessionId, startLen[p], i)
      /\ pc[p] # "getCandidates" =>
           Range(candidates[p]) =
             { i \in MovieIds : CandidateWhere(Movie(i), req[p].filters, << >>) }
               \ LatestOf(req[p].sessionId, startLen[p])

\* A call has chosen a movie of a row of its session that is older than the
\* session's latest recentPicksLimit rows.
C18_Witness ==
  \E p \in Procs :
    /\ req[p].kind = "pick" /\ pc[p] = "recordPick"
    /\ Len(recentPickIds[p]) = recentPicksLimit
    /\ selected[p][1] \in EverPicked(req[p].sessionId, startLen[p])
    /\ selected[p][1] \notin LatestOf(req[p].sessionId, startLen[p])

\* The order of the awaits of pickMovie, and the ways into and out of a call.
StepsOfPick ==
  { << "idle", "getRecent" >>, << "getRecent", "getCandidates" >>,
    << "getCandidates", "getGenres" >>, << "getGenres", "isFirstPick" >>,
    << "isFirstPick", "recordPick" >>, << "done", "idle" >> }
  \cup { << from, "done" >> :
           from \in {"idle", "getRecent", "getCandidates", "getGenres", "isFirstPick",
                     "recordPick"} }

\* C19: a pick call goes through its store accesses in one order: the
\* exclusion fetch, then the candidate fetch, whose exclusion argument is the
\* result of that exclusion fetch, then the genre fetch, then the first-pick
\* query, after which (and not before) a movie is sampled, then the write,
\* which is the only step that changes user_picks and ends the call.
C19_StoreAccessOrder ==
  [][ \A p \in Procs :
        ((req[p].kind = "pick" \/ req'[p].kind = "pick") /\ pc'[p] # pc[p]) =>
          /\ << pc[p], pc'[p] >> \in StepsOfPick
          /\ pc'[p] = "getCandidates" =>
               recentPickIds'[p] = getRecentPickMovieIds(picks, req[p].sessionId)
          /\ pc'[p] = "getGenres" =>
               /\ candidates'[p] \in getCandidateMovies(req[p].filters, recentPickIds[p])
               /\ recentPickIds[p] = getRecentPickMovieIds(picks, req[p].sessionId)
          /\ pc'[p] \in {"getRecent", "getCandidates", "getGenres", "isFirstPick"} =>
               selected'[p] = << >>
          /\ pc'[p] = "recordPick" =>
               /\ isFirstPick'[p] = isFirstPickForSession(picks, req[p].sessionId)
               /\ Len(selected'[p]) = 1
          /\ picks' # picks => (pc[p] = "recordPick" /\ pc'[p] = "done") ]_vars

\* A call of a session with records has made its reads, the exclusion list
\* not empty, and waits for its write.
C19_Witness ==
  \E p \in Procs :
    /\ req[p].kind = "pick" /\ pc[p] = "recordPick"
    /\ recentPickIds[p] # << >> /\ Len(candidates[p]) > 0 /\ ~isFirstPick[p]

\* C20: a pick call that stops at any of its awaits, the one of the write
\* included, has left user_picks as it was when the call began (every step
\* up to there keeps the table); a call whose write has succeeded has left
\* the table of before with one row more, whether or not its reply goes out.
C20_OnlyTheWriteWrites ==
  [][ \A p \in Procs : (req[p].kind = "pick" \/ req'[p].kind = "pick") =>
        /\ pc'[p] \in AwaitsOfPick => (picks' = picks /\ Len(picks') = startLen'[p])
        /\ (pc[p] = "recordPick" /\ pc'[p] = "done" /\ thrownAt'[p] = "") =>
             /\ Len(picks') = startLen[p] + 1
             /\ SubSeq(picks', 1, startLen[p]) = picks
        /\ (pc[p] = "done" /\ response[p].kind = "movie") =>
             (picks' = picks /\ Len(picks) = startLen[p] + 1) ]_vars

\* A call waits for its write, which does not come, at a table that has
\* rows.
C20_Witness ==
  \E p \in Procs :
    /\ req[p].kind = "pick" /\ pc[p] = "recordPick"
    /\ Len(picks) = MaxPicks /\ Len(picks) = startLen[p]

\* The calls of p and q are pick calls of one session.
SameSession(p, q) ==
  /\ p # q
  /\ req[p].kind = "pick" /\ req[q].kind = "pick"
  /\ req[p].sessionId = req[q].sessionId

\* C21: nothing serialises the pick calls of a session.  While a call of the
\* session has made its first-pick query, or waits for its write, and the
\* session has no row yet, the first-pick query of another call of the
\* session can run and answers true; and the write of a call can run when
\* another call of the session has just recorded and returned the same
\* movie.
C21_NotSerialised ==
  \A p, q \in Procs : SameSession(p, q) =>
    /\ ( /\ pc[p] = "isFirstPick" /\ pc[q] = "recordPick" /\ isFirstPick[q]
         /\ ~HasPicked(req[p].sessionId) ) =>
         ENABLED (PickIsFirstPick(p) /\ isFirstPick'[p])
    /\ ( /\ pc[p] = "recordPick" /\ pc[q] = "done" /\ response[q].kind = "movie"
         /\ response[q].movie.id = selected[p][1] /\ Len(picks) < MaxPicks ) =>
         ENABLED PickRecord(p)

\* Two calls of a session have both got true from their first-pick query and
\* have chosen the same movie.
BothObserveFirstPick ==
  \E p, q \in Procs :
    /\ SameSession(p, q)
    /\ pc[p] = "recordPick" /\ pc[q] = "recordPick"
    /\ isFirstPick[p] /\ isFirstPick[q]
    /\ selected[p] = selected[q]

\* Two calls of a session that began with no row in the table have both
\* returned the same movie, and the table holds two rows of that movie for
\* the session.
C21_Witness ==
  \E p, q \in Procs :
    /\ SameSession(p, q)
    /\ pc[p] = "done" /\ pc[q] = "done"
    /\ response[p].kind = "movie" /\ response[q].kind = "movie"
    /\ response[p].movie.id = response[q].movie.id
    /\ startLen[p] = 0 /\ startLen[q] = 0
    /\ Len(picks) = 2
    /\ \A i \in 1 .. 2 : /\ picks[i].session_id = req[p].sessionId
                          /\ picks[i].movie_id = response[p].movie.id

\* The table `log` has a row of the session.
HasRow(log, sessionId) == \E i \in 1 .. Len(log) : log[i].session_id = sessionId

\* C22: the first-pick query of a call answers true exactly when the table
\* has no row of the session, and the bias stage narrows the candidates of
\* such a call only; a call that returns a movie leaves a row of its session,
\* so no later call of the session is narrowed, and a call that ends with no
\* match or with a failure leaves the session with or without rows as it
\* was.
C22_FirstPickUntilFirstRecord ==
  [][ \A p \in Procs : req[p].kind = "pick" =>
        /\ (pc[p] = "isFirstPick" /\ pc'[p] = "recordPick") =>
             /\ isFirstPick'[p] <=> ~HasRow(picks, req[p].sessionId)
             /\ weightedCandidates'[p] # weightedCandidates[p] =>
                  ~HasRow(picks, req[p].sessionId)
        /\ (pc[p] # "done" /\ pc'[p] = "done") =>
             IF response'[p].kind = "movie"
             THEN HasRow(picks', req[p].sessionId)
             ELSE HasRow(picks', req[p].sessionId) <=> HasRow(picks, req[p].sessionId) ]_vars

\* The first call of a session has had its candidates narrowed.
C22_Witness ==
  \E p \in Procs :
    /\ req[p].kind = "pick" /\ pc[p] = "recordPick"
    /\ isFirstPick[p] /\ ~HasRow(picks, req[p].sessionId)
    /\ Len(weightedCandidates[p]) < Len(candidates[p])

\* The sum of the weights of the first i entries of cands.
RunningSum(cands, i) == SeqSum([ j \in 1 .. i |-> cands[j].weight ])

\* The first place of cands at which the running sum of the weights exceeds
\* the draw k / RandomSteps of the total weight.
FirstExceeding(cands, k) ==
  CHOOSE i \in 1 .. Len(cands) :
    /\ RandomSteps * RunningSum(cands, i) > k * RunningSum(cands, Len(cands))
    /\ \A j \in 1 .. i - 1 :
         RandomSteps * RunningSum(cands, j) <= k * RunningSum(cands, Len(cands))

\* C23: when the total weight T is positive, the sampler returns, for the
\* draw r = (k / RandomSteps) * T, the first entry at which the running sum
\* of the weights is greater than r, and never an entry of weight 0.
C23_FirstToExceedTheDraw ==
  (Returned("weightedRandomSelect") /\ RunningSum(fn.cands, Len(fn.cands)) > 0) =>
    /\ fn.chosen = fn.cands[FirstExceeding(fn.cands, fn.k)]
    /\ fn.chosen.weight > 0

\* The movies that fit the filters f and the quality floors.
FilterPool(f) == { i \in MovieIds : CandidateWhere(Movie(i), f, << >>) }

\* When the call of p began, the movies that fit its filters were no more
\* than recentPicksLimit and each had been returned to its session.
PoolExhausted(p) ==
  /\ Cardinality(FilterPool(req[p].filters)) <= recentPicksLimit
  /\ FilterPool(req[p].filters) \subseteq EverPicked(req[p].sessionId, startLen[p])

\* When the call of p began, every row of its session was one of a pick with
\* the filters of this call.
OnlyTheseFilters(p) ==
  \A j \in 1 .. Min(startLen[p], Len(picks)) :
    picks[j].session_id = req[p].sessionId =>
      picks[j].filters = JSONstringify(req[p].filters)

\* The pick call of p ends with no match and without a row written: it is
\* not past its candidate query with candidates, and if it has returned, it
\* has returned no match and the table is as it was.
EndsInNoMatch(p) ==
  /\ pc[p] \notin {"getGenres", "isFirstPick", "recordPick"}
  /\ (pc[p] = "done" /\ thrownAt[p] = "") =>
       (response[p].kind = "nomatch" /\ Len(picks) = startLen[p])

\* C24 as stated: once each of the at most recentPicksLimit movies that fit
\* the filters has been returned to the session, every pick call of the
\* session with those filters ends with no match and writes no row.
C24_ExhaustedPoolStaysExhausted ==
  \A p \in Procs :
    (req[p].kind = "pick" /\ Validation(req[p]) = NoReply /\ PoolExhausted(p)) =>
      EndsInNoMatch(p)

\* C24, amended: once each of the at most recentPicksLimit movies that fit
\* the filters has been returned to the session, and the session has picked
\* with these filters only, every pick call of the session with those
\* filters ends with no match and writes no row; so it stays.
C24_ExhaustedPoolOfOneFilter ==
  \A p \in Procs :
    ( /\ req[p].kind = "pick" /\ Validation(req[p]) = NoReply
      /\ PoolExhausted(p) /\ OnlyTheseFilters(p) ) =>
      EndsInNoMatch(p)

\* A session that has had both comedies of the 2010s, and has picked nothing
\* else, has asked for one more and got no match.
C24_Witness ==
  \E p \in Procs :
    /\ req[p].kind = "pick" /\ pc[p] = "done" /\ response[p].kind = "nomatch"
    /\ req[p].filters = ComedyOfThe2010s
    /\ FilterPool(req[p].filters) # {}
    /\ PoolExhausted(p) /\ OnlyTheseFilters(p)
    /\ Len(picks) = startLen[p]

\* C25: a step of a pick call of a session leaves the rows of every other
\* session as they are, and with them its recent picks and its first-pick
\* status; and what a pick call has read is a matter of the rows of its own
\* session: the exclusion list holds movies of rows of the session only, the
\* first-pick answer is true just when the session has no row, and the
\* candidates are the movies that fit the filters less the session's own
\* latest picks, whatever rows other sessions have.
C25_SessionsIsolated ==
  [][ \A p \in Procs : (req[p].kind = "pick" \/ req'[p].kind = "pick") =>
        /\ \A sid \in Sessions \ {req[p].sessionId, req'[p].sessionId} :
             /\ SessionPicks(picks', sid) = SessionPicks(picks, sid)
             /\ HasRow(picks', sid) <=> HasRow(picks, sid)
        /\ Len(picks') <= Len(picks) + 1
        /\ Len(picks') = Len(picks) + 1 =>
             picks'[Len(picks')].session_id = req[p].sessionId
        /\ pc'[p] \in {"getCandidates", "getGenres", "isFirstPick", "recordPick"} =>
             Range(recentPickIds'[p]) = LatestOf(req[p].sessionId, startLen[p])
        /\ pc'[p] \in {"getGenres", "isFirstPick", "recordPick"} =>
             Range(candidates'[p]) =
               FilterPool(req[p].filters) \ LatestOf(req[p].sessionId, startLen[p])
        /\ pc'[p] = "recordPick" =>
             (isFirstPick'[p] <=> ~HasRow(picks, req[p].sessionId)) ]_vars

\* The first call of a session, made when another session has rows, has read
\* an empty exclusion list and the answer true to its first-pick query.
C25_Witness ==
  \E p \in Procs :
    /\ req[p].kind = "pick" /\ pc[p] = "recordPick"
    /\ \E sid \in Sessions \ {req[p].sessionId} : HasRow(picks, sid)
    /\ ~HasRow(picks, req[p].sessionId)
    /\ recentPickIds[p] = << >> /\ isFirstPick[p]

====
